---- MODULE Spec2Model ----
(***************************************************************************)
(* dion (src/di.ts): a tag/group service registry with a singleton cache.  *)
(* injectable registers a class under its tags and, optionally, a group;   *)
(* inject resolves a tag to one instance or a group to an array of         *)
(* instances.  Constructors of the registered classes (src/tests/types.ts) *)
(* call inject re-entrantly through their default arguments, so a          *)
(* resolution is a recursive computation over the registry state.          *)
(***************************************************************************)
EXTENDS Integers, Sequences, FiniteSets, TLC

VARIABLES classRegistry,    \* Map tag -> RegisteredClass
          groupRegistry,    \* Map group -> RegisteredClass[]
          instances,        \* Map tag -> cached instance
          groups,           \* Map group -> cached array of instances
          heap,             \* the objects allocated so far; an identity is an index
          constructorCalls, \* Map class name -> constructor calls (tests/types.ts)
          log,              \* the inject calls of the last operation, nested ones too
          lastCall,         \* the last operation called and not yet taken by the caller
          result,           \* its outcome
          resolved,         \* history: <<tag, identity>> of every singleton resolution
          frames            \* the handleTag calls under way, one per caller

vars == <<classRegistry, groupRegistry, instances, groups,
          heap, constructorCalls, log, lastCall, result, resolved, frames>>

\* Most objects (class instances and arrays) ever allocated in one run.
MaxHeap == 3
\* Longest group bucket a registration may produce.
MaxBucket == 2
\* Deepest nesting of constructors before the engine's call stack is exhausted.
MaxDepth == 3
\* Callers whose handleTag calls may overlap.
MaxCallers == 2

(***************************************************************************)
(* JavaScript values of the option fields: undefined, a string, an array.  *)
(***************************************************************************)
Undef == [kind |-> "undefined", str |-> "", arr |-> <<>>]
Str(s) == [kind |-> "string", str |-> s, arr |-> <<>>]
Arr(a) == [kind |-> "array", str |-> "", arr |-> a]

\* Truthiness of an option that is undefined or a string: `if (tag)`, `if (group)`.
Truthy(v) == v.kind = "string" /\ v.str # ""

(***************************************************************************)
(* Map<string, V>: a function whose domain is the set of present keys.     *)
(***************************************************************************)
EmptyMap == [k \in {} |-> 0]
Has(m, k) == k \in DOMAIN m
Put(m, k, v) == [x \in (DOMAIN m) \cup {k} |-> IF x = k THEN v ELSE m[x]]

(***************************************************************************)
(* Outcomes of a call.  depth is the number of constructors that were      *)
(* running when an error was thrown: 0 is the called function itself.      *)
(***************************************************************************)
Return(id) == [kind |-> "return", id |-> id, msg |-> "", arg |-> "", depth |-> 0]
Throw(msg, arg, d) == [kind |-> "throw", id |-> 0, msg |-> msg, arg |-> arg, depth |-> d]
NoResult == [kind |-> "none", id |-> 0, msg |-> "", arg |-> "", depth |-> 0]

(***************************************************************************)
(* The registered classes.  A class is named by a string; the class with   *)
(* no intrinsic name has name ''.                                          *)
(***************************************************************************)
Anonymous == "<anonymous>"
ClassName(c) == IF c = Anonymous THEN "" ELSE c

Req(tag, group, singleton) == [tag |-> tag, group |-> group, singleton |-> singleton]

\* The inject calls in the default arguments of a class's constructor, in order.
CtorDeps(c) ==
  CASE c = "Service3" -> << Req(Str("service_1"), Undef, "omitted"),
                            Req(Str("service_2"), Undef, "omitted") >>
    [] c = "Service2" -> << Req(Str("service_1"), Undef, "omitted") >>
    [] c = "Service5" -> << Req(Str("service_4"), Undef, "false") >>
    [] c \in {"Service9", "Service9Prime"} -> << Req(Undef, Str("group_1"), "omitted") >>
    [] c = "Service12" -> << Req(Undef, Str("group_2"), "false") >>
    [] OTHER -> << >>

\* arr[i] of a JavaScript array: undefined (0) past the end.
At(items, i) == IF i \in 1..Len(items) THEN items[i] ELSE 0

\* What the constructor stores in the new object from its evaluated arguments.
Fields(c, args, h) ==
  IF c \in {"Service9", "Service9Prime", "Service12"}
    THEN << At(h[args[1]].fields, 1), At(h[args[1]].fields, 2) >>
    ELSE args

(***************************************************************************)
(* normalizeTags                                                           *)
(***************************************************************************)
\* Mutant: the name is the fallback for undefined only, not for '' or [].
normalizeTagsUndefinedOnly(tags, target) ==
  LET tagList0 == IF tags.kind = "string"
                    THEN (IF tags.str # "" THEN << tags.str >> ELSE << >>)
                    ELSE tags.arr
      name == ClassName(target)
      tagList1 == IF tags.kind = "undefined" /\ name # "" THEN << name >> ELSE tagList0
  IN IF Len(tagList1) = 0
       THEN [ok |-> FALSE, tagList |-> << >>, res |-> Throw("No tags provided", "", 0)]
       ELSE [ok |-> TRUE, tagList |-> tagList1, res |-> NoResult]

\* Mutant: an empty tag list is returned as it is, no error.
normalizeTagsNoThrow(tags, target) ==
  LET tagList0 == IF tags.kind = "string"
                    THEN (IF tags.str # "" THEN << tags.str >> ELSE << >>)
                    ELSE tags.arr
      name == ClassName(target)
      tagList1 == IF Len(tagList0) = 0 /\ name # "" THEN << name >> ELSE tagList0
  IN [ok |-> TRUE, tagList |-> tagList1, res |-> NoResult]

normalizeTags(tags, target) ==
  LET tagList0 == IF tags.kind = "string"
                    THEN (IF tags.str # "" THEN << tags.str >> ELSE << >>)
                    ELSE tags.arr
      name == ClassName(target)
      tagList1 == IF Len(tagList0) = 0 /\ name # "" THEN << name >> ELSE tagList0
  IN IF Len(tagList1) = 0
       THEN [ok |-> FALSE, tagList |-> << >>, res |-> Throw("No tags provided", "", 0)]
       ELSE [ok |-> TRUE, tagList |-> tagList1, res |-> NoResult]

(***************************************************************************)
(* The process-wide state as one record, so that the handlers can be       *)
(* written as functions from state to state and outcome.                   *)
(***************************************************************************)
State == [classRegistry |-> classRegistry, groupRegistry |-> groupRegistry,
          instances |-> instances, groups |-> groups, heap |-> heap,
          constructorCalls |-> constructorCalls, log |-> << >>]

Out(st, res) == [st |-> st, res |-> res]

(***************************************************************************)
(* injectable: the decorator applied to target with a decorator context.   *)
(***************************************************************************)
RECURSIVE RegisterTags(_, _, _, _, _)
\* The body of `for (const tag of tagList)`, from the i-th tag on.
\* Mutant: a tag that is already registered keeps its entry (first write wins).
RegisterTagsFirstWins(st, target, tagList, group, i) ==
  IF i > Len(tagList) THEN st
  ELSE
    LET tag == tagList[i]
        entry == [target |-> target, tags |-> tagList, group |-> group]
        groupEntry == IF Has(st.groupRegistry, group.str)
                        THEN st.groupRegistry[group.str] ELSE << >>
    IN RegisterTags(
         [st EXCEPT !.classRegistry = IF Has(@, tag) THEN @ ELSE Put(@, tag, entry),
                    !.groupRegistry = IF Truthy(group)
                                        THEN Put(@, group.str, Append(groupEntry, entry))
                                        ELSE @],
         target, tagList, group, i + 1)

\* Mutant: the entry is appended to the bucket once per call, not once per tag.
RegisterTagsOncePerCall(st, target, tagList, group, i) ==
  IF i > Len(tagList) THEN st
  ELSE
    LET tag == tagList[i]
        entry == [target |-> target, tags |-> tagList, group |-> group]
        groupEntry == IF Has(st.groupRegistry, group.str)
                        THEN st.groupRegistry[group.str] ELSE << >>
    IN RegisterTags(
         [st EXCEPT !.classRegistry = Put(@, tag, entry),
                    !.groupRegistry = IF Truthy(group) /\ i = 1
                                        THEN Put(@, group.str, Append(groupEntry, entry))
                                        ELSE @],
         target, tagList, group, i + 1)

\* Mutant: with a group given, the entry goes into a bucket named by the tag.
RegisterTagsBucketPerTag(st, target, tagList, group, i) ==
  IF i > Len(tagList) THEN st
  ELSE
    LET tag == tagList[i]
        entry == [target |-> target, tags |-> tagList, group |-> group]
        groupEntry == IF Has(st.groupRegistry, tag)
                        THEN st.groupRegistry[tag] ELSE << >>
    IN RegisterTags(
         [st EXCEPT !.classRegistry = Put(@, tag, entry),
                    !.groupRegistry = IF Truthy(group)
                                        THEN Put(@, tag, Append(groupEntry, entry))
                                        ELSE @],
         target, tagList, group, i + 1)

\* Mutant: the entry that a tag had is taken out of its group's bucket when
\* the tag is registered again.
RegisterTagsUnlinkOld(st, target, tagList, group, i) ==
  IF i > Len(tagList) THEN st
  ELSE
    LET tag == tagList[i]
        entry == [target |-> target, tags |-> tagList, group |-> group]
        unlinked == IF Has(st.classRegistry, tag)
                      THEN [g \in DOMAIN st.groupRegistry |->
                              SelectSeq(st.groupRegistry[g],
                                        LAMBDA e : e # st.classRegistry[tag])]
                      ELSE st.groupRegistry
        groupEntry == IF Has(unlinked, group.str) THEN unlinked[group.str] ELSE << >>
    IN RegisterTags(
         [st EXCEPT !.classRegistry = Put(@, tag, entry),
                    !.groupRegistry = IF Truthy(group)
                                        THEN Put(unlinked, group.str,
                                                 Append(groupEntry, entry))
                                        ELSE unlinked],
         target, tagList, group, i + 1)

RegisterTags(st, target, tagList, group, i) ==
  IF i > Len(tagList) THEN st
  ELSE
    LET tag == tagList[i]
        entry == [target |-> target, tags |-> tagList, group |-> group]
        groupEntry == IF Has(st.groupRegistry, group.str)
                        THEN st.groupRegistry[group.str] ELSE << >>
    IN RegisterTags(
         [st EXCEPT !.classRegistry = Put(@, tag, entry),
                    !.groupRegistry = IF Truthy(group)
                                        THEN Put(@, group.str, Append(groupEntry, entry))
                                        ELSE @],
         target, tagList, group, i + 1)

\* Mutant: the tags are normalized before the kind of the context is looked at.
injectableNormalizesFirst(st, target, options, context) ==
  LET n == normalizeTags(options.tags, target)
  IN IF ~n.ok
       THEN Out(st, n.res)
     ELSE IF context.kind # "class"
       THEN Out(st, Throw("Invalid kind ", context.kind, 0))
     ELSE Out(RegisterTags(st, target, n.tagList, options.group, 1), Return(0))

injectable(st, target, options, context) ==
  IF context.kind # "class"
    THEN Out(st, Throw("Invalid kind ", context.kind, 0))
    ELSE
      LET n == normalizeTags(options.tags, target)
      IN IF ~n.ok
           THEN Out(st, n.res)
           ELSE Out(RegisterTags(st, target, n.tagList, options.group, 1), Return(0))

(***************************************************************************)
(* inject, handleTag, handleGroup, and `new` of a registered class.        *)
(***************************************************************************)
RECURSIVE inject(_, _, _)
RECURSIVE handleTag(_, _, _, _)
RECURSIVE handleGroup(_, _, _, _)
RECURSIVE GroupLoop(_, _, _, _, _, _)
RECURSIVE New(_, _, _)
RECURSIVE EvalArgs(_, _, _, _, _)

\* The one element of a singleton set: The({ e(x) : x \in {v} }) is e(v) with v
\* evaluated once.
The(S) == CHOOSE x \in S : TRUE

\* The default arguments of a constructor, evaluated left to right; the first
\* one that throws ends the evaluation.
EvalArgs(st, deps, i, vals, d) ==
  IF i > Len(deps) THEN [st |-> st, res |-> Return(0), vals |-> vals]
  ELSE The({ IF r.res.kind = "throw"
               THEN [st |-> r.st, res |-> r.res, vals |-> vals]
               ELSE EvalArgs(r.st, deps, i + 1, Append(vals, r.res.id), d)
             : r \in { inject(st, deps[i], d) } })

\* new item(): the default arguments, then the base constructor, which counts
\* the call under the class's name, then the fields.  Entering the constructor
\* when MaxDepth constructors are running exhausts the call stack.
New(st, c, d) ==
  IF d >= MaxDepth
    THEN Out(st, Throw("Maximum call stack size exceeded", "", d + 1))
    ELSE The({
      LET id == Len(a.st.heap) + 1
          n == ClassName(c)
          count == IF Has(a.st.constructorCalls, n) THEN a.st.constructorCalls[n] ELSE 0
      IN IF a.res.kind = "throw"
           THEN Out(a.st, a.res)
           ELSE Out([a.st EXCEPT
                       !.constructorCalls = Put(@, n, count + 1),
                       !.heap = Append(@, [cls |-> c,
                                           fields |-> Fields(c, a.vals, a.st.heap)])],
                    Return(id))
      : a \in { EvalArgs(st, CtorDeps(c), 1, << >>, d + 1) } })

\* Mutant: the cache is never consulted, every call constructs.
handleTagNoCacheRead(st, tag, singleton, d) ==
  IF ~Has(st.classRegistry, tag)
    THEN Out(st, Throw("No service found for tag: ", tag, d))
  ELSE The({ IF c.res.kind = "throw" THEN c
             ELSE IF singleton
               THEN Out([c.st EXCEPT !.instances = Put(@, tag, c.res.id)], c.res)
               ELSE c
             : c \in { New(st, st.classRegistry[tag].target, d) } })

\* Mutant: the cache is consulted whatever `singleton` says.
handleTagCacheAlways(st, tag, singleton, d) ==
  IF Has(st.instances, tag)
    THEN Out(st, Return(st.instances[tag]))
  ELSE IF ~Has(st.classRegistry, tag)
    THEN Out(st, Throw("No service found for tag: ", tag, d))
  ELSE The({ IF c.res.kind = "throw" THEN c
             ELSE IF singleton
               THEN Out([c.st EXCEPT !.instances = Put(@, tag, c.res.id)], c.res)
               ELSE c
             : c \in { New(st, st.classRegistry[tag].target, d) } })

\* Mutant: no check that the tag is registered; `new undefined()` throws.
handleTagNoEntryCheck(st, tag, singleton, d) ==
  IF singleton /\ Has(st.instances, tag)
    THEN Out(st, Return(st.instances[tag]))
  ELSE IF ~Has(st.classRegistry, tag)
    THEN Out(st, Throw("item is not a constructor", "", d))
  ELSE The({ IF c.res.kind = "throw" THEN c
             ELSE IF singleton
               THEN Out([c.st EXCEPT !.instances = Put(@, tag, c.res.id)], c.res)
               ELSE c
             : c \in { New(st, st.classRegistry[tag].target, d) } })

\* Mutant: the new instance is never stored in the cache.
handleTagNoCacheWrite(st, tag, singleton, d) ==
  IF singleton /\ Has(st.instances, tag)
    THEN Out(st, Return(st.instances[tag]))
  ELSE IF ~Has(st.classRegistry, tag)
    THEN Out(st, Throw("No service found for tag: ", tag, d))
  ELSE New(st, st.classRegistry[tag].target, d)

\* Mutant: a cached instance counts only while its class is the one
\* registered under the tag; after a re-registration it is replaced.
handleTagRevalidate(st, tag, singleton, d) ==
  IF /\ singleton /\ Has(st.instances, tag)
     /\ Has(st.classRegistry, tag) =>
          st.heap[st.instances[tag]].cls = st.classRegistry[tag].target
    THEN Out(st, Return(st.instances[tag]))
  ELSE IF ~Has(st.classRegistry, tag)
    THEN Out(st, Throw("No service found for tag: ", tag, d))
  ELSE The({ IF c.res.kind = "throw" THEN c
             ELSE IF singleton
               THEN Out([c.st EXCEPT !.instances = Put(@, tag, c.res.id)], c.res)
               ELSE c
             : c \in { New(st, st.classRegistry[tag].target, d) } })

\* Mutant: the new instance is stored in the cache whatever `singleton` says.
handleTagWriteAlways(st, tag, singleton, d) ==
  IF singleton /\ Has(st.instances, tag)
    THEN Out(st, Return(st.instances[tag]))
  ELSE IF ~Has(st.classRegistry, tag)
    THEN Out(st, Throw("No service found for tag: ", tag, d))
  ELSE The({ IF c.res.kind = "throw" THEN c
             ELSE Out([c.st EXCEPT !.instances = Put(@, tag, c.res.id)], c.res)
             : c \in { New(st, st.classRegistry[tag].target, d) } })

\* Mutant: the cache is keyed by the component (its first tag), not by the
\* tag asked for.
handleTagKeyedByComponent(st, tag, singleton, d) ==
  LET key == IF Has(st.classRegistry, tag) THEN st.classRegistry[tag].tags[1] ELSE tag
  IN IF singleton /\ Has(st.instances, key)
       THEN Out(st, Return(st.instances[key]))
     ELSE IF ~Has(st.classRegistry, tag)
       THEN Out(st, Throw("No service found for tag: ", tag, d))
     ELSE The({ IF c.res.kind = "throw" THEN c
                ELSE IF singleton
                  THEN Out([c.st EXCEPT !.instances = Put(@, key, c.res.id)], c.res)
                  ELSE c
                : c \in { New(st, st.classRegistry[tag].target, d) } })

\* Mutant: the tag is marked in the cache before the constructor runs, so a
\* constructor that resolves its own tag gets the mark (undefined) back.
handleTagCacheBeforeNew(st, tag, singleton, d) ==
  IF singleton /\ Has(st.instances, tag)
    THEN Out(st, Return(st.instances[tag]))
  ELSE IF ~Has(st.classRegistry, tag)
    THEN Out(st, Throw("No service found for tag: ", tag, d))
  ELSE The({ IF c.res.kind = "throw" THEN c
             ELSE IF singleton
               THEN Out([c.st EXCEPT !.instances = Put(@, tag, c.res.id)], c.res)
               ELSE c
             : c \in { New([st EXCEPT !.instances = IF singleton THEN Put(@, tag, 0) ELSE @],
                           st.classRegistry[tag].target, d) } })

handleTag(st, tag, singleton, d) ==
  IF singleton /\ Has(st.instances, tag)
    THEN Out(st, Return(st.instances[tag]))
  ELSE IF ~Has(st.classRegistry, tag)
    THEN Out(st, Throw("No service found for tag: ", tag, d))
  ELSE The({ IF c.res.kind = "throw" THEN c
             ELSE IF singleton
               THEN Out([c.st EXCEPT !.instances = Put(@, tag, c.res.id)], c.res)
               ELSE c
             : c \in { New(st, st.classRegistry[tag].target, d) } })

\* Mutant: the instances are put at the front of the array (unshift for push).
GroupLoopUnshift(st, groupItems, i, arr, singleton, d) ==
  IF i > Len(groupItems) THEN Out(st, Return(arr))
  ELSE The({ IF c.res.kind = "throw" THEN c
             ELSE GroupLoop(IF singleton
                              THEN [c.st EXCEPT !.heap[arr].fields = << c.res.id >> \o @]
                              ELSE c.st,
                            groupItems, i + 1, arr, singleton, d)
             : c \in { New(st, groupItems[i].target, d) } })

\* The body of `for (const { target: item } of groupItems)`, from the i-th
\* item on; arr is the array `instances` of handleGroup.
\* Mutant: a non-singleton resolution skips the constructors, as nothing of
\* what they make is kept.
GroupLoopSingletonOnly(st, groupItems, i, arr, singleton, d) ==
  IF i > Len(groupItems) \/ ~singleton THEN Out(st, Return(arr))
  ELSE The({ IF c.res.kind = "throw" THEN c
             ELSE GroupLoop([c.st EXCEPT !.heap[arr].fields = Append(@, c.res.id)],
                            groupItems, i + 1, arr, singleton, d)
             : c \in { New(st, groupItems[i].target, d) } })

GroupLoop(st, groupItems, i, arr, singleton, d) ==
  IF i > Len(groupItems) THEN Out(st, Return(arr))
  ELSE The({ IF c.res.kind = "throw" THEN c
             ELSE GroupLoop(IF singleton
                              THEN [c.st EXCEPT !.heap[arr].fields = Append(@, c.res.id)]
                              ELSE c.st,
                            groupItems, i + 1, arr, singleton, d)
             : c \in { New(st, groupItems[i].target, d) } })

\* Mutant: a missing bucket is read as an empty one (`?? []`), no error.
handleGroupNoBucketCheck(st, group, singleton, d) ==
  IF singleton /\ Has(st.groups, group)
    THEN Out(st, Return(st.groups[group]))
  ELSE
    LET arr == Len(st.heap) + 1
        st1 == [st EXCEPT !.heap = Append(@, [cls |-> "Array", fields |-> << >>])]
        groupItems == IF Has(st.groupRegistry, group)
                        THEN st.groupRegistry[group] ELSE << >>
    IN The({ IF r.res.kind = "throw" THEN r
             ELSE IF singleton
               THEN Out([r.st EXCEPT !.groups = Put(@, group, arr)], r.res)
               ELSE r
             : r \in { GroupLoop(st1, groupItems, 1, arr, singleton, d) } })

\* Mutant: the group cache is never consulted, every call constructs.
handleGroupNoCacheRead(st, group, singleton, d) ==
  IF ~Has(st.groupRegistry, group)
    THEN Out(st, Throw("No service found for group: ", group, d))
  ELSE
    LET arr == Len(st.heap) + 1
        st1 == [st EXCEPT !.heap = Append(@, [cls |-> "Array", fields |-> << >>])]
    IN The({ IF r.res.kind = "throw" THEN r
             ELSE IF singleton
               THEN Out([r.st EXCEPT !.groups = Put(@, group, arr)], r.res)
               ELSE r
             : r \in { GroupLoop(st1, st.groupRegistry[group], 1, arr, singleton, d) } })

\* Mutant: the array is put in the group cache before the loop, so it stays
\* there when a constructor throws.
handleGroupCacheFirst(st, group, singleton, d) ==
  IF singleton /\ Has(st.groups, group)
    THEN Out(st, Return(st.groups[group]))
  ELSE IF ~Has(st.groupRegistry, group)
    THEN Out(st, Throw("No service found for group: ", group, d))
  ELSE
    LET arr == Len(st.heap) + 1
        st1 == [st EXCEPT !.heap = Append(@, [cls |-> "Array", fields |-> << >>]),
                          !.groups = IF singleton THEN Put(@, group, arr) ELSE @]
    IN GroupLoop(st1, st.groupRegistry[group], 1, arr, singleton, d)

\* Mutant: the loop takes the items out of the bucket (shift) as it goes, so
\* the bucket is empty after the resolution.
handleGroupDrainsBucket(st, group, singleton, d) ==
  IF singleton /\ Has(st.groups, group)
    THEN Out(st, Return(st.groups[group]))
  ELSE IF ~Has(st.groupRegistry, group)
    THEN Out(st, Throw("No service found for group: ", group, d))
  ELSE
    LET arr == Len(st.heap) + 1
        st1 == [st EXCEPT !.heap = Append(@, [cls |-> "Array", fields |-> << >>])]
    IN The({ IF r.res.kind = "throw" THEN r
             ELSE IF singleton
               THEN Out([r.st EXCEPT !.groups = Put(@, group, arr),
                                     !.groupRegistry = Put(@, group, << >>)], r.res)
               ELSE Out([r.st EXCEPT !.groupRegistry = Put(@, group, << >>)], r.res)
             : r \in { GroupLoop(st1, st.groupRegistry[group], 1, arr, singleton, d) } })

\* Mutant: the array is made and stored in the cache before the bucket is
\* looked up.
handleGroupCacheBeforeLookup(st, group, singleton, d) ==
  IF singleton /\ Has(st.groups, group)
    THEN Out(st, Return(st.groups[group]))
  ELSE
    LET arr == Len(st.heap) + 1
        st1 == [st EXCEPT !.heap = Append(@, [cls |-> "Array", fields |-> << >>]),
                          !.groups = IF singleton THEN Put(@, group, arr) ELSE @]
    IN IF ~Has(st.groupRegistry, group)
         THEN Out(st1, Throw("No service found for group: ", group, d))
         ELSE GroupLoop(st1, st.groupRegistry[group], 1, arr, singleton, d)

handleGroup(st, group, singleton, d) ==
  IF singleton /\ Has(st.groups, group)
    THEN Out(st, Return(st.groups[group]))
  ELSE IF ~Has(st.groupRegistry, group)
    THEN Out(st, Throw("No service found for group: ", group, d))
  ELSE
    LET arr == Len(st.heap) + 1
        st1 == [st EXCEPT !.heap = Append(@, [cls |-> "Array", fields |-> << >>])]
    IN The({ IF r.res.kind = "throw" THEN r
             ELSE IF singleton
               THEN Out([r.st EXCEPT !.groups = Put(@, group, arr)], r.res)
               ELSE r
             : r \in { GroupLoop(st1, st.groupRegistry[group], 1, arr, singleton, d) } })

\* { ...{ singleton: true }, ...options }: an omitted key keeps the default.
Singleton(options) == options.singleton # "false"

\* Mutant: `else` for `else if (group)`: no tag means resolve by group.
injectBodyElseGroup(st, options, d) ==
  IF Truthy(options.tag)
    THEN handleTag(st, options.tag.str, Singleton(options), d)
  ELSE handleGroup(st, options.group.str, Singleton(options), d)

\* Mutant: the group is looked at first, the tag only when there is no group.
injectBodyGroupFirst(st, options, d) ==
  IF Truthy(options.group)
    THEN handleGroup(st, options.group.str, Singleton(options), d)
  ELSE IF Truthy(options.tag)
    THEN handleTag(st, options.tag.str, Singleton(options), d)
  ELSE Out(st, Throw("Needs either tag or group", "", d))

injectBody(st, options, d) ==
  IF Truthy(options.tag)
    THEN handleTag(st, options.tag.str, Singleton(options), d)
  ELSE IF Truthy(options.group)
    THEN handleGroup(st, options.group.str, Singleton(options), d)
  ELSE Out(st, Throw("Needs either tag or group", "", d))

\* inject, with the call recorded in the log of the running operation: what
\* was asked, at what constructor depth, the caches and heap size it found,
\* and the outcome.  Nested calls are logged before the call that made them.
inject(st, options, d) ==
  The({ Out([r.st EXCEPT !.log = Append(@,
               [req |-> options, depth |-> d, res |-> r.res,
                heapBefore |-> Len(st.heap), heapAfter |-> Len(r.st.heap),
                instancesBefore |-> st.instances, groupsBefore |-> st.groups,
                callsBefore |-> st.constructorCalls,
                callsAfter |-> r.st.constructorCalls])],
            r.res)
        : r \in { injectBody(st, options, d) } })

(***************************************************************************)
(* The inputs the operations are tried with.                               *)
(***************************************************************************)
Reg(target, tags, group, kind) ==
  [target |-> target, tags |-> tags, group |-> group, kind |-> kind]

\* Decorator applications: explicit tags, the name fallback for undefined, ''
\* and [], several tags (one of them another class's name) with a group, a
\* class without a name, and a decorator put on something that is no class.
Registrations ==
  { Reg("Service1", Str("service_1"), Str(""), "class"),
    Reg("Service1", Undef, Str("group_1"), "class"),
    Reg("Service1", Str(""), Undef, "class"),
    Reg("Service1", Arr(<< >>), Undef, "class"),
    Reg("Service2", Arr(<<"service_1", "Service1">>), Str("group_1"), "class"),
    Reg(Anonymous, Undef, Undef, "class"),
    Reg(Anonymous, Str(""), Str("group_1"), "class"),
    Reg(Anonymous, Arr(<< >>), Undef, "class"),
    Reg(Anonymous, Str("Service1"), Str("group_1"), "class"),
    Reg("Service1", Str("service_1"), Undef, "method") }

\* inject calls: by tag, by group, with both, with neither.
Requests ==
  { Req(Str(t), Undef, s) :
      t \in {"service_1", "Service1", "NON_EXISTING_TAG"},
      s \in {"omitted", "false"} }
  \cup { Req(Undef, Str(g), s) :
           g \in {"group_1", "NON_EXISTING_GROUP"}, s \in {"omitted", "false"} }
  \cup { Req(Str("service_1"), Undef, "true"),
         Req(Str("service_1"), Str("group_1"), "omitted"),
         Req(Undef, Undef, "omitted"),
         Req(Str(""), Str(""), "false") }

Call(op, target, tags, tag, group, kind, singleton) ==
  [op |-> op, target |-> target, tags |-> tags, tag |-> tag, group |-> group,
   kind |-> kind, singleton |-> singleton]

NoCall == Call("none", "", Undef, Undef, Undef, "", "omitted")

\* A call of handleTag under way: where it is (pc), its arguments, the class
\* it read from the registry and its outcome so far.
Frame(pc, tag, singleton, item, res) ==
  [pc |-> pc, tag |-> tag, singleton |-> singleton, item |-> item, res |-> res]

IdleFrame == Frame("idle", "", TRUE, "", NoResult)

Callers == 1..MaxCallers

Init ==
  /\ classRegistry = EmptyMap
  /\ groupRegistry = EmptyMap
  /\ instances = EmptyMap
  /\ groups = EmptyMap
  /\ heap = << >>
  /\ constructorCalls = EmptyMap
  /\ log = << >>
  /\ lastCall = NoCall
  /\ result = NoResult
  /\ resolved = {}
  /\ frames = [p \in Callers |-> IdleFrame]

\* @injectable(r.tags, r.group) applied to class r.target with a context of r.kind.
Injectable(r) ==
  \E o \in { injectable(State, r.target, [tags |-> r.tags, group |-> r.group],
                        [kind |-> r.kind]) } :
     /\ lastCall = NoCall
     /\ \A g \in DOMAIN o.st.groupRegistry : Len(o.st.groupRegistry[g]) <= MaxBucket
     /\ classRegistry' = o.st.classRegistry
     /\ groupRegistry' = o.st.groupRegistry
     /\ lastCall' = Call("injectable", r.target, r.tags, Undef, r.group, r.kind, "omitted")
     /\ result' = o.res
     /\ log' = << >>
     /\ UNCHANGED <<instances, groups, heap, constructorCalls, resolved, frames>>

\* The singleton resolutions by tag that returned, among the calls of a log.
SingletonReturns(l) ==
  { <<l[i].req.tag.str, l[i].res.id>> :
      i \in { j \in DOMAIN l : /\ Truthy(l[j].req.tag)
                               /\ Singleton(l[j].req)
                               /\ l[j].res.kind = "return" } }

\* inject(q) called from outside any constructor, while the heap has room.
Inject(q, room) ==
  \E o \in { inject(State, q, 0) } :
     /\ lastCall = NoCall
     /\ Len(o.st.heap) <= room
     /\ classRegistry' = o.st.classRegistry
     /\ groupRegistry' = o.st.groupRegistry
     /\ instances' = o.st.instances
     /\ groups' = o.st.groups
     /\ heap' = o.st.heap
     /\ constructorCalls' = o.st.constructorCalls
     /\ log' = o.st.log
     /\ lastCall' = Call("inject", "", Undef, q.tag, q.group, "", q.singleton)
     /\ result' = o.res
     /\ resolved' = resolved \cup SingletonReturns(o.st.log)
     /\ UNCHANGED frames

\* The caller has taken the outcome of the last call; the next call can be made.
Continue ==
  /\ lastCall # NoCall
  /\ lastCall' = NoCall
  /\ result' = NoResult
  /\ log' = << >>
  /\ UNCHANGED <<classRegistry, groupRegistry, instances, groups, heap,
                 constructorCalls, resolved, frames>>

Next ==
  \/ \E r \in Registrations : Injectable(r)
  \/ \E q \in Requests : Inject(q, MaxHeap)
  \/ Continue

Spec == Init /\ [][Next]_vars

(***************************************************************************)
(* The dependency chain of tests/types.ts: Service3 takes service_1 and    *)
(* service_2, Service2 takes service_1, registered in any order and        *)
(* resolved as singletons only.                                            *)
(***************************************************************************)
ChainRegistrations ==
  { Reg("Service3", Str("service_3"), Undef, "class"),
    Reg("Service2", Str("service_2"), Undef, "class"),
    Reg("Service1", Arr(<<"service_1">>), Undef, "class") }

ChainRequests ==
  { Req(Str(t), Undef, s) :
      t \in {"service_1", "service_2", "service_3"}, s \in {"omitted", "true"} }

NextChain ==
  \/ \E r \in ChainRegistrations : Injectable(r)
  \/ \E q \in ChainRequests : Inject(q, MaxHeap)
  \/ Continue

SpecChain == Init /\ [][NextChain]_vars

(***************************************************************************)
(* The group consumers of tests/types.ts: Service7 and Service8 are in     *)
(* group_1, Service9 and Service9Prime take the group as a singleton;      *)
(* Service10 is in group_2, which Service12 takes as a non-singleton.      *)
(***************************************************************************)
GroupRegistrations ==
  { Reg("Service7", Undef, Str("group_1"), "class"),
    Reg("Service8", Undef, Str("group_1"), "class"),
    Reg("Service9", Undef, Undef, "class"),
    Reg("Service9Prime", Undef, Undef, "class"),
    Reg("Service10", Undef, Str("group_2"), "class"),
    Reg("Service12", Undef, Undef, "class") }

GroupRequests ==
  { Req(Str("Service9"), Undef, "omitted"),
    Req(Str("Service9Prime"), Undef, "omitted"),
    Req(Str("Service12"), Undef, "omitted"),
    Req(Undef, Str("group_1"), "omitted"),
    Req(Undef, Str("group_1"), "false") }

NextGroup ==
  \/ \E r \in GroupRegistrations : Injectable(r)
  \/ \E q \in GroupRequests : Inject(q, MaxHeap + 3)
  \/ Continue

SpecGroup == Init /\ [][NextGroup]_vars

(***************************************************************************)
(* Tags and groups: components with several tags, a tag listed twice, two  *)
(* groups, the group '' and no group, all resolved as singletons.          *)
(***************************************************************************)
TagRegistrations ==
  { Reg("Service7", Arr(<<"tag_a", "tag_b">>), Str("group_1"), "class"),
    Reg("Service8", Arr(<<"tag_a", "tag_a">>), Str("group_2"), "class"),
    Reg("Service8", Str("tag_b"), Str("group_1"), "class"),
    Reg(Anonymous, Str("tag_b"), Str("group_1"), "class"),
    Reg("Service8", Str("tag_b"), Undef, "class"),
    Reg("Service8", Arr(<<"tag_b">>), Str(""), "class") }

TagRequests ==
  { Req(Str("tag_a"), Undef, "omitted"),
    Req(Str("tag_b"), Undef, "omitted"),
    Req(Undef, Str("group_1"), "omitted") }

NextTags ==
  \/ \E r \in TagRegistrations : Injectable(r)
  \/ \E q \in TagRequests : Inject(q, MaxHeap + 2)
  \/ Continue

SpecTags == Init /\ [][NextTags]_vars

(***************************************************************************)
(* handleTag step by step.  While `new item()` runs, the constructor's     *)
(* code runs and may call handleTag again; under several threads any       *)
(* statement of one call may run between two statements of another.  Each  *)
(* caller p has one call under way, in frames[p].                          *)
(***************************************************************************)
\* Mutant: the instance is stored only if the tag has none yet.
setInstanceIfAbsent(m, tag, instance, singleton) ==
  IF singleton /\ ~Has(m, tag) THEN Put(m, tag, instance) ELSE m

\* if (singleton) { instances.set(tag, instance); }
setInstance(m, tag, instance, singleton) ==
  IF singleton THEN Put(m, tag, instance) ELSE m

\* handleTag(tag, singleton) is called: the test of the cache.
HandleTagCheck(p, tag, singleton) ==
  /\ frames[p].pc = "idle"
  /\ frames' = [frames EXCEPT ![p] =
       IF singleton /\ Has(instances, tag)
         THEN Frame("done", tag, singleton, "", Return(instances[tag]))
         ELSE Frame("entry", tag, singleton, "", NoResult)]
  /\ UNCHANGED <<classRegistry, groupRegistry, instances, groups, heap,
                 constructorCalls, log, lastCall, result, resolved>>

\* The entry is read from the class registry.
HandleTagEntry(p) ==
  /\ frames[p].pc = "entry"
  /\ frames' = [frames EXCEPT ![p] =
       IF ~Has(classRegistry, frames[p].tag)
         THEN [@ EXCEPT !.pc = "done",
                        !.res = Throw("No service found for tag: ", frames[p].tag, 0)]
         ELSE [@ EXCEPT !.pc = "new", !.item = classRegistry[frames[p].tag].target]]
  /\ UNCHANGED <<classRegistry, groupRegistry, instances, groups, heap,
                 constructorCalls, log, lastCall, result, resolved>>

\* new item(): the constructor runs, with the resolutions it makes.
HandleTagNew(p) ==
  \E c \in { New(State, frames[p].item, 0) } :
     /\ frames[p].pc = "new"
     /\ Len(c.st.heap) <= MaxHeap
     /\ instances' = c.st.instances
     /\ groups' = c.st.groups
     /\ heap' = c.st.heap
     /\ constructorCalls' = c.st.constructorCalls
     /\ frames' = [frames EXCEPT ![p] =
          [@ EXCEPT !.pc = IF c.res.kind = "throw" THEN "done" ELSE "set",
                    !.res = c.res]]
     /\ UNCHANGED <<classRegistry, groupRegistry, log, lastCall, result, resolved>>

\* The instance is stored if singleton, and returned.
HandleTagSet(p) ==
  /\ frames[p].pc = "set"
  /\ instances' = setInstance(instances, frames[p].tag, frames[p].res.id,
                              frames[p].singleton)
  /\ frames' = [frames EXCEPT ![p].pc = "done"]
  /\ UNCHANGED <<classRegistry, groupRegistry, groups, heap,
                 constructorCalls, log, lastCall, result, resolved>>

\* The caller has taken the outcome.
HandleTagReturn(p) ==
  /\ frames[p].pc = "done"
  /\ frames' = [frames EXCEPT ![p] = IdleFrame]
  /\ UNCHANGED <<classRegistry, groupRegistry, instances, groups, heap,
                 constructorCalls, log, lastCall, result, resolved>>

OverlapRegistrations ==
  { Reg("Service1", Str("service_1"), Undef, "class") }

OverlapTags == {"service_1"}

NextOverlap ==
  \/ \E r \in OverlapRegistrations : Injectable(r)
  \/ Continue
  \/ \E p \in Callers :
       \/ \E tag \in OverlapTags, singleton \in BOOLEAN :
            HandleTagCheck(p, tag, singleton)
       \/ HandleTagEntry(p)
       \/ HandleTagNew(p)
       \/ HandleTagSet(p)
       \/ HandleTagReturn(p)

SpecOverlap == Init /\ [][NextOverlap]_vars

(***************************************************************************)
(* A group with a member whose constructor can fail: Service2 takes        *)
(* service_1, which may not be registered yet.                             *)
(***************************************************************************)
FailRegistrations ==
  { Reg("Service7", Undef, Str("group_1"), "class"),
    Reg("Service2", Str("service_2"), Str("group_1"), "class"),
    Reg("Service1", Str("service_1"), Undef, "class") }

FailRequests ==
  { Req(Undef, Str("group_1"), "omitted"),
    Req(Undef, Str("group_1"), "false") }

NextFail ==
  \/ \E r \in FailRegistrations : Injectable(r)
  \/ \E q \in FailRequests : Inject(q, MaxHeap + 3)
  \/ Continue

SpecFail == Init /\ [][NextFail]_vars

(***************************************************************************)
(* Dependencies between components: Service2 takes service_1.  Registered  *)
(* under service_2 it depends on another component; registered under       *)
(* service_1 its construction resolves its own tag.                        *)
(***************************************************************************)
DepRegistrations ==
  { Reg("Service1", Str("service_1"), Undef, "class"),
    Reg("Service2", Str("service_2"), Str("group_1"), "class"),
    Reg("Service2", Str("service_1"), Undef, "class") }

DepRequests ==
  { Req(Str(t), Undef, s) : t \in {"service_1", "service_2"}, s \in {"omitted", "false"} }
  \cup { Req(Undef, Str("group_1"), s) : s \in {"omitted", "false"} }

NextDeps ==
  \/ \E r \in DepRegistrations : Injectable(r)
  \/ \E q \in DepRequests : Inject(q, MaxHeap + 1)
  \/ Continue

SpecDeps == Init /\ [][NextDeps]_vars

(***************************************************************************)
(* Requests with a tag and a group, and the tag '': a component can be     *)
(* registered under '' by listing it in an array of tags.                  *)
(***************************************************************************)
BothRegistrations ==
  { Reg("Service7", Arr(<<"">>), Str("group_1"), "class"),
    Reg("Service8", Str("tag_a"), Str("group_1"), "class"),
    Reg("Service1", Str("tag_a"), Undef, "class") }

BothRequests ==
  { Req(Str("tag_a"), Str("group_1"), s) : s \in {"omitted", "false"} }
  \cup { Req(Str(""), Str("group_1"), s) : s \in {"omitted", "false"} }
  \cup { Req(Str("NON_EXISTING_TAG"), Str("group_1"), "omitted"),
         Req(Str("tag_a"), Str("NON_EXISTING_GROUP"), "omitted"),
         Req(Str(""), Undef, "omitted"),
         Req(Str("tag_a"), Undef, "omitted"),
         Req(Undef, Str("group_1"), "omitted") }

NextBoth ==
  \/ \E r \in BothRegistrations : Injectable(r)
  \/ \E q \in BothRequests : Inject(q, MaxHeap + 1)
  \/ Continue

SpecBoth == Init /\ [][NextBoth]_vars

(***************************************************************************)
(* Properties.  A step is described by the primed lastCall, result and     *)
(* log; the unprimed variables are the state the call found.               *)
(***************************************************************************)
InjectByTag == /\ lastCall'.op = "inject"
               /\ Truthy(lastCall'.tag)
InjectByGroup == /\ lastCall'.op = "inject"
                 /\ ~Truthy(lastCall'.tag)
                 /\ Truthy(lastCall'.group)
CalledSingleton == lastCall'.singleton # "false"
\* The outcome is an error thrown inside a constructor that the call ran.
ConstructorThrew(res, d) == res.kind = "throw" /\ res.depth > d
Unchanged == UNCHANGED <<classRegistry, groupRegistry, instances, groups,
                         heap, constructorCalls>>

\* C1: all singleton resolutions of one tag that returned, over the whole run
\* and at any constructor depth, returned the same instance identity.
C1_SingletonSameIdentity ==
  \A p, q \in resolved : p[1] = q[1] => p[2] = q[2]

\* A singleton resolution by tag has just returned the instance that an
\* earlier resolution had put in the tag cache.
C1_Witness ==
  /\ lastCall.op = "inject" /\ Truthy(lastCall.tag) /\ lastCall.singleton # "false"
  /\ result.kind = "return"
  /\ Has(log[Len(log)].instancesBefore, lastCall.tag.str)
  /\ <<lastCall.tag.str, result.id>> \in resolved

\* C2: a non-singleton resolution of a registered tag, at any constructor
\* depth, that is not ended by an error of a constructor returns an object
\* allocated during the call, an instance of the class registered under the
\* tag, the only instance of that class the call allocated, and not the
\* instance the tag cache holds.
NonSingletonTagFresh(e) ==
  LET t == e.req.tag.str
      c == classRegistry[t].target
  IN \/ ConstructorThrew(e.res, e.depth)
     \/ /\ e.res.kind = "return"
        /\ e.res.id \in (e.heapBefore + 1)..e.heapAfter
        /\ heap'[e.res.id].cls = c
        /\ Cardinality({ i \in (e.heapBefore + 1)..e.heapAfter : heap'[i].cls = c }) = 1
        /\ \A k \in DOMAIN instances' : instances'[k] # e.res.id
        /\ \A k \in DOMAIN groups' : groups'[k] # e.res.id

C2_NonSingletonTagNew ==
  [][ lastCall'.op = "inject" =>
        \A i \in DOMAIN log' :
          ( /\ Truthy(log'[i].req.tag)
            /\ ~Singleton(log'[i].req)
            /\ Has(classRegistry, log'[i].req.tag.str) )
          => NonSingletonTagFresh(log'[i]) ]_vars

\* A non-singleton resolution of a tag whose singleton is cached has returned
\* another object of the registered class.
C2_Witness ==
  /\ lastCall.op = "inject" /\ Truthy(lastCall.tag) /\ lastCall.singleton = "false"
  /\ result.kind = "return"
  /\ Has(instances, lastCall.tag.str)
  /\ instances[lastCall.tag.str] # result.id
  /\ heap[result.id].cls = classRegistry[lastCall.tag.str].target

\* The array a group resolution returned holds one new instance per bucket
\* entry, the i-th of the i-th entry's class, all allocated during the call.
OnePerEntryInOrder(e) ==
  LET bucket == groupRegistry[e.req.group.str]
      arr == heap'[e.res.id].fields
      new == (e.heapBefore + 1)..e.heapAfter
  IN /\ e.res.id \in new
     /\ heap'[e.res.id].cls = "Array"
     /\ Len(arr) = Len(bucket)
     /\ \A i \in DOMAIN arr : arr[i] \in new /\ heap'[arr[i]].cls = bucket[i].target
     /\ \A i, j \in DOMAIN arr : i # j => arr[i] # arr[j]

GroupRequest(e) == ~Truthy(e.req.tag) /\ Truthy(e.req.group)

\* C3: a non-singleton resolution of a registered group that is not ended by
\* an error of a constructor returns a new array with one new instance per
\* bucket entry, in bucket order.
C3_NonSingletonGroupFresh ==
  [][ lastCall'.op = "inject" =>
        \A i \in DOMAIN log' :
          ( /\ GroupRequest(log'[i])
            /\ ~Singleton(log'[i].req)
            /\ Has(groupRegistry, log'[i].req.group.str) )
          => \/ ConstructorThrew(log'[i].res, log'[i].depth)
             \/ log'[i].res.kind = "return" /\ OnePerEntryInOrder(log'[i]) ]_vars

\* A registration appends to buckets only: what a bucket held stays, in place.
BucketsGrowAtEnd ==
  \A g \in DOMAIN groupRegistry :
    /\ Has(groupRegistry', g)
    /\ Len(groupRegistry'[g]) >= Len(groupRegistry[g])
    /\ SubSeq(groupRegistry'[g], 1, Len(groupRegistry[g])) = groupRegistry[g]

\* C4: a singleton resolution of a registered group that finds no cached
\* array and is not ended by an error of a constructor returns a new array
\* with one new instance per bucket entry, the i-th of the i-th entry's class;
\* and bucket order is registration order, as registrations only append.
C4_FirstGroupSingletonInOrder ==
  [][ /\ lastCall'.op = "injectable" => BucketsGrowAtEnd
      /\ lastCall'.op = "inject" =>
           \A i \in DOMAIN log' :
             ( /\ GroupRequest(log'[i])
               /\ Singleton(log'[i].req)
               /\ ~Has(log'[i].groupsBefore, log'[i].req.group.str)
               /\ Has(groupRegistry, log'[i].req.group.str) )
             => \/ ConstructorThrew(log'[i].res, log'[i].depth)
                \/ log'[i].res.kind = "return" /\ OnePerEntryInOrder(log'[i]) ]_vars

\* The first singleton resolution of a group whose bucket holds two entries
\* of different classes has returned.
C4_Witness ==
  /\ lastCall.op = "inject" /\ ~Truthy(lastCall.tag) /\ Truthy(lastCall.group)
  /\ lastCall.singleton # "false"
  /\ result.kind = "return"
  /\ ~Has(log[Len(log)].groupsBefore, lastCall.group.str)
  /\ Len(groupRegistry[lastCall.group.str]) = 2
  /\ groupRegistry[lastCall.group.str][1].target # groupRegistry[lastCall.group.str][2].target
  /\ Len(heap[result.id].fields) = 2

\* C7: a resolution by a tag that is not in the class registry (nothing is
\* ever removed from it, so: a tag never registered) throws 'No service found
\* for tag: <tag>' itself, singleton or not, and changes nothing.
C7_UnknownTagNotFound ==
  [][ (InjectByTag /\ ~Has(classRegistry, lastCall'.tag.str))
        => /\ result' = Throw("No service found for tag: ", lastCall'.tag.str, 0)
           /\ Unchanged ]_vars

\* A non-singleton resolution of an unregistered tag has failed while other
\* tags are registered and cached.
C7_Witness ==
  /\ lastCall.op = "inject" /\ Truthy(lastCall.tag) /\ lastCall.singleton = "false"
  /\ ~Has(classRegistry, lastCall.tag.str)
  /\ result.kind = "throw" /\ result.arg = lastCall.tag.str
  /\ DOMAIN classRegistry # {} /\ DOMAIN instances # {}

\* C8: a resolution by a group that has no bucket throws 'No service found for
\* group: <group>' itself, singleton or not, and changes nothing; no bucket is
\* ever empty, and no group resolution returns for a group without entries.
C8_UnknownGroupNotFound ==
  [][ /\ (InjectByGroup /\ ~Has(groupRegistry, lastCall'.group.str))
        => /\ result' = Throw("No service found for group: ", lastCall'.group.str, 0)
           /\ Unchanged
      /\ \A g \in DOMAIN groupRegistry' : Len(groupRegistry'[g]) > 0
      /\ (InjectByGroup /\ result'.kind = "return")
        => /\ Has(groupRegistry, lastCall'.group.str)
           /\ Len(groupRegistry[lastCall'.group.str]) > 0 ]_vars

\* A non-singleton resolution of a group without a bucket has failed while
\* another group has a bucket and a cached array.
C8_Witness ==
  /\ lastCall.op = "inject" /\ ~Truthy(lastCall.tag) /\ Truthy(lastCall.group)
  /\ lastCall.singleton = "false"
  /\ ~Has(groupRegistry, lastCall.group.str)
  /\ result.kind = "throw" /\ result.arg = lastCall.group.str
  /\ DOMAIN groupRegistry # {} /\ DOMAIN groups # {}

\* C9: inject with neither a tag nor a group (each undefined or '') throws
\* 'Needs either tag or group', constructs nothing and leaves the registries
\* and the caches as they were.
C9_NeitherTagNorGroup ==
  [][ (lastCall'.op = "inject" /\ ~Truthy(lastCall'.tag) /\ ~Truthy(lastCall'.group))
        => /\ result' = Throw("Needs either tag or group", "", 0)
           /\ Len(log') = 1
           /\ Unchanged ]_vars

\* inject({ tag: '', group: '' }) has failed while the registries and the
\* caches hold entries.
C9_Witness ==
  /\ lastCall.op = "inject" /\ lastCall.tag = Str("") /\ lastCall.group = Str("")
  /\ result.msg = "Needs either tag or group"
  /\ DOMAIN classRegistry # {} /\ DOMAIN groupRegistry # {}
  /\ DOMAIN instances # {} /\ DOMAIN groups # {}

\* C5: a singleton resolution of a group that finds an array in the group
\* cache, whoever asks (the top-level caller or the constructor of a
\* consumer) and whatever was registered into the group since, returns that
\* array, allocates nothing, calls no constructor and leaves the array's
\* elements and the cache entry as they were.
CachedGroupReturned(e) ==
  LET g == e.req.group.str
      arr == e.groupsBefore[g]
  IN /\ e.res = Return(arr)
     /\ e.heapAfter = e.heapBefore
     /\ e.callsAfter = e.callsBefore
     /\ groups'[g] = arr
     /\ arr \in DOMAIN heap => heap'[arr] = heap[arr]

C5_CachedGroupSingleton ==
  [][ lastCall'.op = "inject" =>
        \A i \in DOMAIN log' :
          ( /\ GroupRequest(log'[i])
            /\ Singleton(log'[i].req)
            /\ Has(log'[i].groupsBefore, log'[i].req.group.str) )
          => CachedGroupReturned(log'[i]) ]_vars

\* Service9Prime's constructor has been given the array cached before the
\* call, after the group's bucket had grown past that array.
C5_Witness ==
  /\ lastCall.op = "inject" /\ lastCall.tag = Str("Service9Prime")
  /\ result.kind = "return"
  /\ \E i \in DOMAIN log :
       /\ log[i].depth = 1
       /\ GroupRequest(log[i])
       /\ Has(log[i].groupsBefore, "group_1")
       /\ log[i].res.id = groups["group_1"]
  /\ Len(groupRegistry["group_1"]) > Len(heap[groups["group_1"]].fields)
  /\ Has(instances, "Service9")

\* C6: with Service1, Service2 (takes service_1) and Service3 (takes service_1
\* and service_2) registered in any order and resolved only as singletons, no
\* constructor ever runs twice, a cached instance is of the class registered
\* under its tag, every Service2 and Service3 holds the cached singletons of
\* its dependencies, and once service_3 is resolved each of the three
\* constructors has run exactly once.
ChainClass(t) ==
  CASE t = "service_1" -> "Service1"
    [] t = "service_2" -> "Service2"
    [] t = "service_3" -> "Service3"

C6_ChainConstructedOnce ==
  /\ \A n \in DOMAIN constructorCalls : constructorCalls[n] = 1
  /\ \A t \in DOMAIN instances :
       /\ heap[instances[t]].cls = ChainClass(t)
       /\ Has(constructorCalls, ChainClass(t))
  /\ \A o \in DOMAIN heap :
       /\ heap[o].cls = "Service2" =>
            /\ Has(instances, "service_1")
            /\ heap[o].fields = << instances["service_1"] >>
       /\ heap[o].cls = "Service3" =>
            /\ Has(instances, "service_1") /\ Has(instances, "service_2")
            /\ heap[o].fields = << instances["service_1"], instances["service_2"] >>
  /\ Has(instances, "service_3") =>
       /\ DOMAIN constructorCalls = {"Service1", "Service2", "Service3"}
       /\ Len(heap) = 3
  /\ \A p, q \in resolved : p[1] = q[1] => p[2] = q[2]

\* service_3 has been resolved a second time, after service_2 and service_1
\* were resolved on their own.
C6_Witness ==
  /\ lastCall.op = "inject" /\ lastCall.tag = Str("service_3")
  /\ result.kind = "return"
  /\ Has(log[Len(log)].instancesBefore, "service_3")
  /\ heap[result.id].cls = "Service3"
  /\ heap[heap[result.id].fields[2]].fields[1] = heap[result.id].fields[1]
  /\ \A n \in {"Service1", "Service2", "Service3"} :
       Has(constructorCalls, n) /\ constructorCalls[n] = 1

\* A registry entry made by the name fallback: the class's name is its one tag.
FallbackEntry(t) ==
  /\ Has(classRegistry, t)
  /\ classRegistry[t].tags = << t >>
  /\ ClassName(classRegistry[t].target) = t

EmptyTagSpec(tags) ==
  \/ tags.kind = "undefined"
  \/ tags.kind = "string" /\ tags.str = ""
  \/ tags.kind = "array" /\ tags.arr = << >>

\* Decorating a named class with no tag specification registers it under its
\* name and under nothing else, with or without a group.
RegisteredUnderNameOnly ==
  (/\ lastCall'.op = "injectable" /\ lastCall'.kind = "class"
   /\ EmptyTagSpec(lastCall'.tags)
   /\ ClassName(lastCall'.target) # "")
  => /\ result' = Return(0)
     /\ classRegistry' =
          Put(classRegistry, ClassName(lastCall'.target),
              [target |-> lastCall'.target,
               tags |-> << ClassName(lastCall'.target) >>,
               group |-> lastCall'.group])

\* C10 as stated: the class is registered under its name only, and every
\* resolution by that name that is not ended by an error of a constructor
\* returns an instance of that class.
C10_NameResolvesToComponent ==
  [][ /\ RegisteredUnderNameOnly
      /\ (InjectByTag /\ FallbackEntry(lastCall'.tag.str))
           => \/ ConstructorThrew(result', 0)
              \/ /\ result'.kind = "return"
                 /\ heap'[result'.id].cls = classRegistry[lastCall'.tag.str].target ]_vars

\* C10 amended: the class is registered under its name only; a resolution by
\* that name that constructs (non-singleton, or singleton with nothing cached
\* under the name) and is not ended by an error of a constructor returns a
\* new instance of that class; a singleton resolution that finds an instance
\* cached under the name returns that instance, whatever its class.
C10_NameResolvesWhenConstructing ==
  [][ /\ RegisteredUnderNameOnly
      /\ (InjectByTag /\ FallbackEntry(lastCall'.tag.str))
           => IF CalledSingleton /\ Has(instances, lastCall'.tag.str)
                THEN result' = Return(instances[lastCall'.tag.str])
                ELSE \/ ConstructorThrew(result', 0)
                     \/ /\ result'.kind = "return"
                        /\ result'.id \in (Len(heap) + 1)..Len(heap')
                        /\ heap'[result'.id].cls =
                             classRegistry[lastCall'.tag.str].target ]_vars

\* Service1, registered with no tags and with a group, has been resolved by
\* its name.
C10_Witness ==
  /\ lastCall.op = "inject" /\ lastCall.tag = Str("Service1")
  /\ FallbackEntry("Service1")
  /\ Truthy(classRegistry["Service1"].group)
  /\ result.kind = "return"
  /\ heap[result.id].cls = "Service1"

(***************************************************************************)
(* Registration.                                                           *)
(***************************************************************************)
Range(seq) == { seq[i] : i \in DOMAIN seq }

\* The tags a decorator application registers under: the given tag or tags,
\* or the class's name when none is given.
NormalizedTagList(tags, target) ==
  IF EmptyTagSpec(tags) THEN << ClassName(target) >>
  ELSE IF tags.kind = "string" THEN << tags.str >>
  ELSE tags.arr

\* The decorator is applied to a class for which a tag can be determined.
Registers ==
  /\ lastCall'.op = "injectable" /\ lastCall'.kind = "class"
  /\ EmptyTagSpec(lastCall'.tags) => ClassName(lastCall'.target) # ""

\* The entry a registration stores.
EntryOf(call) ==
  [target |-> call.target, tags |-> NormalizedTagList(call.tags, call.target),
   group |-> call.group]

\* The log entry is a resolution by a registered tag that has to construct.
ConstructsByTag(e) ==
  /\ Truthy(e.req.tag)
  /\ Has(classRegistry, e.req.tag.str)
  /\ ~Singleton(e.req) \/ ~Has(e.instancesBefore, e.req.tag.str)

\* C11: a registration succeeds whatever is registered already and maps each
\* of its tags to its own entry, leaving every other tag's entry as it was;
\* a failed registration and a resolution leave the class registry as it
\* was; so each tag maps to the entry of the most recent registration that
\* listed it.  A resolution of a tag that constructs and is not ended by an
\* error of a constructor returns a new instance of that entry's class.
C11_LastRegistrationWins ==
  [][ /\ Registers =>
           /\ result' = Return(0)
           /\ DOMAIN classRegistry' =
                DOMAIN classRegistry
                  \cup Range(NormalizedTagList(lastCall'.tags, lastCall'.target))
           /\ \A t \in DOMAIN classRegistry' :
                classRegistry'[t] =
                  IF t \in Range(NormalizedTagList(lastCall'.tags, lastCall'.target))
                    THEN EntryOf(lastCall')
                    ELSE classRegistry[t]
      /\ ~Registers => classRegistry' = classRegistry
      /\ lastCall'.op = "inject" =>
           \A i \in DOMAIN log' :
             ConstructsByTag(log'[i])
             => \/ ConstructorThrew(log'[i].res, log'[i].depth)
                \/ /\ log'[i].res.kind = "return"
                   /\ log'[i].res.id \in (log'[i].heapBefore + 1)..log'[i].heapAfter
                   /\ heap'[log'[i].res.id].cls =
                        classRegistry[log'[i].req.tag.str].target ]_vars

\* A tag whose cached singleton is of the class registered first has been
\* resolved as a non-singleton after another class was registered under it,
\* and the new instance is of that other class.
C11_Witness ==
  /\ lastCall.op = "inject" /\ Truthy(lastCall.tag) /\ lastCall.singleton = "false"
  /\ result.kind = "return"
  /\ Has(instances, lastCall.tag.str)
  /\ heap[instances[lastCall.tag.str]].cls # classRegistry[lastCall.tag.str].target
  /\ heap[result.id].cls = classRegistry[lastCall.tag.str].target

\* n copies of e.
Copies(n, e) == [i \in 1..n |-> e]

Bucket(reg, g) == IF Has(reg, g) THEN reg[g] ELSE << >>

\* C12: a registration under N tags (a tag listed twice counts twice) with a
\* non-empty group puts N copies of its entry at the end of that group's
\* bucket, behind what the bucket held, and changes no other bucket; a
\* registration with no group or with the group '', and one that fails,
\* changes no bucket and creates none.
C12_BucketGetsEntryPerTag ==
  [][ /\ (Registers /\ Truthy(lastCall'.group)) =>
           groupRegistry' =
             Put(groupRegistry, lastCall'.group.str,
                 Bucket(groupRegistry, lastCall'.group.str)
                   \o Copies(Len(NormalizedTagList(lastCall'.tags, lastCall'.target)),
                             EntryOf(lastCall')))
      /\ (lastCall'.op = "injectable" /\ ~(Registers /\ Truthy(lastCall'.group))) =>
           groupRegistry' = groupRegistry ]_vars

\* The class listed twice under one tag has just been registered into
\* group_2, whose bucket holds its entry twice, while group_1's bucket holds
\* the entries of two registration calls.
C12_Witness ==
  /\ lastCall.op = "injectable" /\ lastCall.tags = Arr(<<"tag_a", "tag_a">>)
  /\ Has(groupRegistry, "group_2")
  /\ groupRegistry["group_2"] = Copies(2, EntryOf(lastCall))
  /\ Has(groupRegistry, "group_1")
  /\ Len(groupRegistry["group_1"]) = 2
  /\ groupRegistry["group_1"][1] # groupRegistry["group_1"][2]

(***************************************************************************)
(* Constructor invocations of a group resolution.                          *)
(***************************************************************************)
\* The objects allocated during the i-th call of the log.
Span(l, i) == (l[i].heapBefore + 1)..l[i].heapAfter

\* Those of them the call allocated itself: not during an inject call that a
\* constructor made, which the log lists before the call that ran the
\* constructor.
Direct(l, i) == { o \in Span(l, i) : \A j \in 1..(i - 1) : o \notin Span(l, j) }

Rank(o, S) == Cardinality({ x \in S : x <= o })

Calls(m, n) == IF Has(m, n) THEN m[n] ELSE 0

\* The i-th call of the log made the array and then, in bucket order, one
\* object per entry of the bucket, each of the entry's class.
ConstructsBucketInOrder(l, i, bucket) ==
  /\ Cardinality(Direct(l, i)) = Len(bucket) + 1
  /\ \A o \in Direct(l, i) :
       heap'[o].cls = IF Rank(o, Direct(l, i)) = 1 THEN "Array"
                      ELSE bucket[Rank(o, Direct(l, i)) - 1].target

\* Every constructor that ran during the i-th call of the log was counted
\* once under its class's name and made one object.
CountsMatchObjects(l, i) ==
  \A n \in DOMAIN l[i].callsAfter :
    Calls(l[i].callsAfter, n) - Calls(l[i].callsBefore, n) =
      Cardinality({ o \in Span(l, i) :
                      heap'[o].cls # "Array" /\ ClassName(heap'[o].cls) = n })

\* C13: a non-singleton resolution of a registered group, at any constructor
\* depth, that is not ended by an error of a constructor runs the
\* constructor of each bucket entry once, in bucket order, and the
\* constructor-call counters grow by exactly the constructors that ran; so k
\* such resolutions run each entry's constructor k times.
C13_NonSingletonGroupConstructsEach ==
  [][ lastCall'.op = "inject" =>
        \A i \in DOMAIN log' :
          ( /\ GroupRequest(log'[i])
            /\ ~Singleton(log'[i].req)
            /\ Has(groupRegistry, log'[i].req.group.str) )
          => \/ ConstructorThrew(log'[i].res, log'[i].depth)
             \/ /\ log'[i].res.kind = "return"
                /\ ConstructsBucketInOrder(log', i, groupRegistry[log'[i].req.group.str])
                /\ CountsMatchObjects(log', i) ]_vars

\* The second non-singleton resolution of group_1, whose bucket holds
\* Service7 and Service8, has returned: each constructor has run twice.
C13_Witness ==
  /\ lastCall.op = "inject" /\ lastCall.group = Str("group_1")
  /\ lastCall.singleton = "false"
  /\ result.kind = "return"
  /\ Len(groupRegistry["group_1"]) = 2
  /\ groupRegistry["group_1"][1].target # groupRegistry["group_1"][2].target
  /\ \A n \in {"Service7", "Service8"} : Calls(constructorCalls, n) = 2
  /\ ~Has(groups, "group_1")

\* C14: applied to a class, the decorator throws 'No tags provided' exactly
\* when the tags option is undefined, '' or [] and the class has no name; it
\* throws nothing else; and when it throws, with or without a group in the
\* options, the class registry and the group registry are as before.
C14_NoTagsExactlyWhenNameless ==
  [][ (lastCall'.op = "injectable" /\ lastCall'.kind = "class") =>
        /\ (result' = Throw("No tags provided", "", 0))
             <=> (EmptyTagSpec(lastCall'.tags) /\ ClassName(lastCall'.target) = "")
        /\ result'.kind = "throw" =>
             /\ result'.msg = "No tags provided"
             /\ classRegistry' = classRegistry
             /\ groupRegistry' = groupRegistry
        /\ result'.kind # "throw" => result' = Return(0) ]_vars

\* The decorator with tags '' and a group has failed on a class without a
\* name, while the group has a bucket and that bucket is as it was.
C14_Witness ==
  /\ lastCall.op = "injectable" /\ lastCall.kind = "class"
  /\ lastCall.target = Anonymous /\ lastCall.tags = Str("")
  /\ Truthy(lastCall.group)
  /\ result = Throw("No tags provided", "", 0)
  /\ Has(groupRegistry, lastCall.group.str)
  /\ \A i \in DOMAIN groupRegistry[lastCall.group.str] :
       groupRegistry[lastCall.group.str][i].tags # << >>
  /\ DOMAIN classRegistry # {}

(***************************************************************************)
(* The caches.                                                             *)
(***************************************************************************)
\* Every mapping of cache m is still in cache n.
Kept(m, n) == \A k \in DOMAIN m : Has(n, k) /\ n[k] = m[k]

\* C15: whatever the operation (a registration, also of a cached tag with
\* another class, a resolution of either mode by tag or by group, a failed
\* call), every mapping the tag cache held before it, and every mapping a
\* nested resolution found in it, is in the tag cache after it; and a
\* singleton resolution of a cached tag, top-level or nested, returns the
\* cached instance, whatever is registered under the tag by then.
C15_TagCacheNeverReplaced ==
  [][ /\ Kept(instances, instances')
      /\ lastCall'.op = "inject" =>
           \A i \in DOMAIN log' :
             /\ Kept(log'[i].instancesBefore, instances')
             /\ ( /\ Truthy(log'[i].req.tag)
                  /\ Singleton(log'[i].req)
                  /\ Has(log'[i].instancesBefore, log'[i].req.tag.str) )
                => log'[i].res = Return(log'[i].instancesBefore[log'[i].req.tag.str]) ]_vars

\* A singleton resolution has returned the instance cached under a tag that
\* has since been registered with another class.
C15_Witness ==
  /\ lastCall.op = "inject" /\ Truthy(lastCall.tag) /\ lastCall.singleton # "false"
  /\ Has(log[Len(log)].instancesBefore, lastCall.tag.str)
  /\ result = Return(instances[lastCall.tag.str])
  /\ heap[result.id].cls # classRegistry[lastCall.tag.str].target
  /\ Len(heap) > 1

\* A singleton resolution by tag k, made by a constructor during the last
\* operation, returned object o.
NestedSingletonByTag(k, o) ==
  \E j \in DOMAIN log' :
    /\ log'[j].depth > 0 /\ Singleton(log'[j].req)
    /\ log'[j].req.tag = Str(k) /\ log'[j].res = Return(o)

\* The same by group g.
NestedSingletonByGroup(g, o) ==
  \E j \in DOMAIN log' :
    /\ log'[j].depth > 0 /\ Singleton(log'[j].req)
    /\ GroupRequest(log'[j]) /\ log'[j].req.group = Str(g) /\ log'[j].res = Return(o)

\* C16: a non-singleton resolution, by tag or by group, successful or not,
\* keeps every mapping of the tag cache and of the group cache, with or
\* without one for the requested key; a mapping that is new after it was
\* made by a singleton resolution of a constructor it ran; and what it, or a
\* non-singleton resolution of a constructor, returns is an object made
\* during the call, not a cached one.
C16_NonSingletonLeavesCaches ==
  [][ (lastCall'.op = "inject" /\ ~CalledSingleton) =>
        /\ Kept(instances, instances')
        /\ Kept(groups, groups')
        /\ \A k \in DOMAIN instances' \ DOMAIN instances :
             NestedSingletonByTag(k, instances'[k])
        /\ \A g \in DOMAIN groups' \ DOMAIN groups :
             NestedSingletonByGroup(g, groups'[g])
        /\ Len(log') = 1 => instances' = instances /\ groups' = groups
        /\ \A i \in DOMAIN log' :
             (~Singleton(log'[i].req) /\ log'[i].res.kind = "return")
             => log'[i].res.id \in Span(log', i) ]_vars

\* A non-singleton resolution of a cached tag has returned another object,
\* and the constructor it ran has put a singleton of its own into the cache.
C16_Witness ==
  /\ lastCall.op = "inject" /\ Truthy(lastCall.tag) /\ lastCall.singleton = "false"
  /\ result.kind = "return"
  /\ Len(log) = 2
  /\ Has(log[2].instancesBefore, lastCall.tag.str)
  /\ instances[lastCall.tag.str] = log[2].instancesBefore[lastCall.tag.str]
  /\ instances[lastCall.tag.str] # result.id
  /\ DOMAIN instances # DOMAIN log[2].instancesBefore

(***************************************************************************)
(* Overlapping resolutions.                                                *)
(***************************************************************************)
\* The call of caller p, in frame f, missed the cache as a singleton
\* resolution and has its own new instance.
ConstructedSingleton(f) ==
  /\ f.pc \in {"set", "done"} /\ f.singleton
  /\ f.item # "" /\ f.res.kind = "return"

\* C17: handleTag does not hold the cache between its test and its write.
\* The write of a singleton resolution puts its instance under the tag
\* whatever the cache holds by then, so the instance written last stays; and
\* two singleton resolutions of one tag that both missed the cache (the
\* second tested it before the first wrote) have each made an instance of
\* their own.
C17_OverlapLastWriteWins ==
  [][ \A p \in Callers :
        /\ (frames[p].pc = "set" /\ frames'[p].pc = "done" /\ frames[p].singleton)
             => /\ Has(instances', frames[p].tag)
                /\ instances'[frames[p].tag] = frames[p].res.id
        /\ \A q \in Callers \ {p} :
             ( /\ ConstructedSingleton(frames'[p])
               /\ ConstructedSingleton(frames'[q])
               /\ frames'[p].tag = frames'[q].tag )
             => frames'[p].res.id # frames'[q].res.id ]_vars

\* Two callers have each got an instance from a singleton resolution of the
\* same tag, the two instances differ, and the cache holds the instance that
\* was made first and written last, in place of the other caller's.
C17_Witness ==
  /\ frames[1].pc = "done" /\ frames[2].pc = "done"
  /\ ConstructedSingleton(frames[1]) /\ ConstructedSingleton(frames[2])
  /\ frames[1].tag = frames[2].tag
  /\ frames[1].res.id # frames[2].res.id
  /\ frames[1].res.id < frames[2].res.id
  /\ instances[frames[1].tag] = frames[1].res.id

(***************************************************************************)
(* A constructor that fails during a group resolution.                     *)
(***************************************************************************)
\* The i-th call of the log is a resolution of a registered group that runs
\* the constructors: non-singleton, or singleton with no cached array.
ConstructsByGroup(l, i) ==
  /\ GroupRequest(l[i])
  /\ Has(groupRegistry, l[i].req.group.str)
  /\ ~Singleton(l[i].req) \/ ~Has(l[i].groupsBefore, l[i].req.group.str)

\* The i-th call of the log made the array and the objects of the first
\* k - 1 bucket entries, in bucket order, and nothing of the k-th or a later
\* entry; the constructor of the k-th entry made the call that failed.
StoppedAtEntry(l, i, bucket, k) ==
  /\ k \in DOMAIN bucket
  /\ Cardinality(Direct(l, i)) = k
  /\ \A o \in Direct(l, i) :
       heap'[o].cls = IF Rank(o, Direct(l, i)) = 1 THEN "Array"
                      ELSE bucket[Rank(o, Direct(l, i)) - 1].target
  /\ i > 1 /\ l[i - 1].depth = l[i].depth + 1
  /\ \E x \in DOMAIN CtorDeps(bucket[k].target) :
       CtorDeps(bucket[k].target)[x] = l[i - 1].req

\* C18: when a constructor fails during a group resolution of either mode,
\* the resolution ends with that constructor's error, the entries before the
\* failing one have been constructed and none after it, and the group cache
\* is as it was; a singleton resolution that finds no cached array, as after
\* such a failure, constructs every entry of the bucket.
C18_GroupFailurePropagates ==
  [][ lastCall'.op = "inject" =>
        /\ \A i \in DOMAIN log' :
             (ConstructsByGroup(log', i) /\ ConstructorThrew(log'[i].res, log'[i].depth))
             => /\ log'[i].res = log'[i - 1].res
                /\ \E k \in DOMAIN groupRegistry[log'[i].req.group.str] :
                     StoppedAtEntry(log', i, groupRegistry[log'[i].req.group.str], k)
        /\ (InjectByGroup /\ ConstructorThrew(result', 0)) =>
             groups' = groups
        /\ (InjectByGroup /\ CalledSingleton /\ result'.kind = "return"
               /\ ~Has(groups, lastCall'.group.str)) =>
             /\ ConstructsBucketInOrder(log', Len(log'), groupRegistry[lastCall'.group.str])
             /\ OnePerEntryInOrder(log'[Len(log')]) ]_vars

\* The singleton resolution of group_1, whose bucket is Service7 then
\* Service2, has failed in Service2's constructor: Service7 has been
\* constructed, Service2 has not, and the group cache holds nothing.
C18_Witness ==
  /\ lastCall.op = "inject" /\ lastCall.group = Str("group_1")
  /\ lastCall.singleton # "false"
  /\ result = Throw("No service found for tag: ", "service_1", 1)
  /\ Len(groupRegistry["group_1"]) = 2
  /\ groupRegistry["group_1"][1].target = "Service7"
  /\ groupRegistry["group_1"][2].target = "Service2"
  /\ Calls(constructorCalls, "Service7") = 1
  /\ Calls(constructorCalls, "Service2") = 0
  /\ ~Has(groups, "group_1")

\* The groups whose bucket the last step made or changed.
ChangedBuckets ==
  { g \in DOMAIN groupRegistry' : Bucket(groupRegistry, g) # groupRegistry'[g] }

\* C19: after every step, each entry in the bucket of a group g has g as its
\* group; and a registration makes or changes at most one bucket, which is
\* the one its options name, while no other operation changes any.
C19_EntriesInTheirGroupOnly ==
  [][ /\ \A g \in DOMAIN groupRegistry' :
           \A i \in DOMAIN groupRegistry'[g] : groupRegistry'[g][i].group = Str(g)
      /\ DOMAIN groupRegistry \subseteq DOMAIN groupRegistry'
      /\ Cardinality(ChangedBuckets) <= 1
      /\ \A g \in ChangedBuckets :
           lastCall'.op = "injectable" /\ lastCall'.group = Str(g) ]_vars

\* A class with two tags has been registered into group_1 while group_2 has
\* a bucket: its two entries are in group_1's bucket and not in group_2's.
C19_Witness ==
  /\ lastCall.op = "injectable" /\ lastCall.group = Str("group_1")
  /\ lastCall.tags = Arr(<<"tag_a", "tag_b">>)
  /\ Has(groupRegistry, "group_1") /\ Has(groupRegistry, "group_2")
  /\ groupRegistry["group_1"] = Copies(2, EntryOf(lastCall))
  /\ \A i \in DOMAIN groupRegistry["group_2"] :
       groupRegistry["group_2"][i] # EntryOf(lastCall)

\* The instances in the array cached for group g.
GroupInstances(g) == Range(heap[groups[g]].fields)

\* C20: the singletons are per tag and per group.  Singleton resolutions of
\* two different tags never returned the same instance, also when one
\* registration put one class under both tags; the instances cached under
\* different tags differ; and no instance in a cached group array is an
\* instance a singleton resolution by tag returned or cached, nor is it in
\* the array of another group.
C20_SingletonPerTagAndGroup ==
  /\ \A p, q \in resolved : p[1] # q[1] => p[2] # q[2]
  /\ \A t, u \in DOMAIN instances : t # u => instances[t] # instances[u]
  /\ \A g \in DOMAIN groups :
       /\ \A p \in resolved : p[2] \notin GroupInstances(g)
       /\ \A t \in DOMAIN instances : instances[t] \notin GroupInstances(g)
       /\ \A h \in DOMAIN groups \ {g} : GroupInstances(g) \cap GroupInstances(h) = {}

\* One registration put Service7 under tag_a and tag_b and into group_1;
\* both tags and the group have been resolved as singletons: two cached
\* Service7 instances, and other Service7 instances in the cached array.
C20_Witness ==
  /\ Has(instances, "tag_a") /\ Has(instances, "tag_b") /\ Has(groups, "group_1")
  /\ classRegistry["tag_a"] = classRegistry["tag_b"]
  /\ heap[instances["tag_a"]].cls = "Service7"
  /\ heap[instances["tag_b"]].cls = "Service7"
  /\ instances["tag_a"] # instances["tag_b"]
  /\ {<<"tag_a", instances["tag_a"]>>, <<"tag_b", instances["tag_b"]>>} \subseteq resolved
  /\ \E o \in GroupInstances("group_1") : heap[o].cls = "Service7"

(***************************************************************************)
(* Termination.  A resolution is a finite computation unless constructors  *)
(* nest without end, which the engine ends by exhausting the call stack.   *)
(***************************************************************************)
\* What a request resolves: a tag or, with no tag, a group.
Node(req) == IF Truthy(req.tag) THEN <<"tag", req.tag.str>>
             ELSE <<"group", req.group.str>>

\* What the constructor of class c resolves.
DepsOfClass(c) == { Node(CtorDeps(c)[i]) : i \in DOMAIN CtorDeps(c) }

\* The dependency relation of the registered components: what is resolved
\* by the constructors that resolving n runs.
Succ(n) ==
  IF n[1] = "tag"
    THEN IF Has(classRegistry, n[2])
           THEN DepsOfClass(classRegistry[n[2]].target) ELSE {}
    ELSE UNION { DepsOfClass(Bucket(groupRegistry, n[2])[i].target) :
                   i \in DOMAIN Bucket(groupRegistry, n[2]) }

RECURSIVE ReachFrom(_)
ReachFrom(S) ==
  LET T == S \cup UNION { Succ(n) : n \in S }
  IN IF T = S THEN S ELSE ReachFrom(T)

\* Resolving n can lead to a resolution that leads to itself.
Cyclic(n) == \E m \in ReachFrom({n}) : m \in ReachFrom(Succ(m))

StackExhausted(res) == res.kind = "throw" /\ res.msg = "Maximum call stack size exceeded"

\* C21: a resolution whose dependencies are acyclic ends, by a return or by
\* an error, without exhausting the call stack: constructors nest no deeper
\* than there are dependencies to reach; every call of the log made at most
\* one object per bucket entry and the array (by group) or one object (by
\* tag); and a resolution of a tag that is not cached and whose component
\* resolves that same tag finds the cache without it at every level, nests
\* until the call stack is exhausted, and caches nothing.
C21_AcyclicResolutionEnds ==
  [][ (lastCall'.op = "inject" /\ (Truthy(lastCall'.tag) \/ Truthy(lastCall'.group))) =>
        /\ result'.kind \in {"return", "throw"}
        /\ ~Cyclic(Node(lastCall')) =>
             \A i \in DOMAIN log' :
               /\ ~StackExhausted(log'[i].res)
               /\ log'[i].depth < Cardinality(ReachFrom({Node(lastCall')}))
        /\ \A i \in DOMAIN log' :
             Cardinality(Direct(log', i)) <=
               IF Truthy(log'[i].req.tag) THEN 1
               ELSE Len(Bucket(groupRegistry, log'[i].req.group.str)) + 1
        /\ ( /\ Truthy(lastCall'.tag)
             /\ Node(lastCall') \in Succ(Node(lastCall'))
             /\ ~Has(instances, lastCall'.tag.str) )
           => /\ result' = Throw("Maximum call stack size exceeded", "", MaxDepth + 1)
              /\ Len(log') = MaxDepth + 1
              /\ \A i \in DOMAIN log' :
                   /\ log'[i].req.tag = lastCall'.tag
                   /\ ~Has(log'[i].instancesBefore, lastCall'.tag.str)
              /\ instances' = instances ]_vars

\* The resolution of group_1, whose member Service2 takes service_1, has
\* returned with acyclic dependencies: Service2's constructor has resolved
\* service_1, one level down, and no deeper.
C21_Witness ==
  /\ lastCall.op = "inject" /\ lastCall.group = Str("group_1")
  /\ ~Cyclic(Node(lastCall))
  /\ Succ(Node(lastCall)) = {<<"tag", "service_1">>}
  /\ Has(classRegistry, "service_1")
  /\ result.kind = "return"
  /\ Len(log) = 2 /\ log[1].depth = 1 /\ log[1].res.kind = "return"

\* C22: a resolution, by tag or by group, singleton or not, ending by a
\* return, by an error of its own or by an error of a constructor, leaves
\* the class registry and the group registry exactly as they were.  (No
\* constructor of the registered classes registers anything.)
C22_InjectLeavesRegistries ==
  [][ lastCall'.op = "inject" =>
        /\ classRegistry' = classRegistry
        /\ groupRegistry' = groupRegistry ]_vars

\* A non-singleton resolution of group_1 has run the constructors of its
\* bucket, and these a resolution of their own; the tags and the bucket are
\* registered as before.
C22_Witness ==
  /\ lastCall.op = "inject" /\ lastCall.group = Str("group_1")
  /\ lastCall.singleton = "false"
  /\ result.kind = "return"
  /\ Len(log) > 1
  /\ Has(groupRegistry, "group_1") /\ Len(groupRegistry["group_1"]) > 0
  /\ {"service_1", "service_2"} \subseteq DOMAIN classRegistry
  /\ Len(heap) > Len(groupRegistry["group_1"]) + 1

(***************************************************************************)
(* Requests with both a tag and a group, or with the tag ''.               *)
(***************************************************************************)
\* The last call did to the caches, the heap and the counters, and ended,
\* as the request q does from the state before it.
SameAs(q) ==
  \E o \in { inject(State, q, 0) } :
     /\ result' = o.res
     /\ instances' = o.st.instances
     /\ groups' = o.st.groups
     /\ heap' = o.st.heap
     /\ constructorCalls' = o.st.constructorCalls

\* C23: a request with a non-empty tag and a non-empty group is resolved as
\* the request with that tag alone: whatever the group registry and the
\* group cache hold for the group, it fails with the tag's not-found error
\* when the tag is not registered, it never returns an array, and with no
\* constructor resolving a group the group cache is as before.  A tag ''
\* counts as no tag: with a group the request is resolved as the request
\* with the group alone, and without one it fails with 'Needs either tag or
\* group' and changes nothing, also when '' is a registered tag.
C23_TagBeforeGroupEmptyIsAbsent ==
  [][ lastCall'.op = "inject" =>
        /\ (Truthy(lastCall'.tag) /\ Truthy(lastCall'.group)) =>
             /\ SameAs(Req(lastCall'.tag, Undef, lastCall'.singleton))
             /\ ~Has(classRegistry, lastCall'.tag.str) =>
                  result' = Throw("No service found for tag: ", lastCall'.tag.str, 0)
             /\ result'.kind = "return" => heap'[result'.id].cls # "Array"
             /\ Len(log') = 1 => groups' = groups
        /\ (lastCall'.tag = Str("") /\ Truthy(lastCall'.group)) =>
             SameAs(Req(Undef, lastCall'.group, lastCall'.singleton))
        /\ (lastCall'.tag = Str("") /\ ~Truthy(lastCall'.group)) =>
             /\ result' = Throw("Needs either tag or group", "", 0)
             /\ Unchanged ]_vars

\* inject({ tag: '' }) has failed while a class is registered under the tag
\* '' and its group has been resolved and cached.
C23_Witness ==
  /\ lastCall.op = "inject" /\ lastCall.tag = Str("") /\ lastCall.group = Undef
  /\ result = Throw("Needs either tag or group", "", 0)
  /\ Has(classRegistry, "")
  /\ classRegistry[""].target = "Service7"
  /\ Has(groups, "group_1")
  /\ Has(classRegistry, "tag_a")

(***************************************************************************)
(* Overwritten tags.                                                       *)
(***************************************************************************)
\* Entry e of a bucket is no longer what the class registry has for one of
\* its tags.
Overwritten(e) == \E t \in Range(e.tags) : classRegistry[t] # e

\* C24: a registration that takes over tags of earlier entries maps these
\* tags to its own entry and leaves every bucket entry where it was, the
\* ones it overwrote too, adding its own entries behind them if it names
\* that group; and a group resolution that constructs and is not ended by
\* an error of a constructor constructs every entry of the bucket, the
\* overwritten ones too.
C24_OverwrittenEntryStaysInBucket ==
  [][ /\ Registers =>
           /\ \A t \in Range(NormalizedTagList(lastCall'.tags, lastCall'.target)) :
                classRegistry'[t] = EntryOf(lastCall')
           /\ \A g \in DOMAIN groupRegistry :
                /\ Has(groupRegistry', g)
                /\ Len(groupRegistry'[g]) =
                     Len(groupRegistry[g]) +
                       IF lastCall'.group = Str(g)
                         THEN Len(NormalizedTagList(lastCall'.tags, lastCall'.target))
                         ELSE 0
                /\ \A i \in DOMAIN groupRegistry[g] :
                     groupRegistry'[g][i] = groupRegistry[g][i]
      /\ (InjectByGroup /\ Has(groupRegistry, lastCall'.group.str)
             /\ (~CalledSingleton \/ ~Has(groups, lastCall'.group.str))) =>
           \/ ConstructorThrew(result', 0)
           \/ /\ result'.kind = "return"
              /\ ConstructsBucketInOrder(log', Len(log'),
                                         groupRegistry[lastCall'.group.str]) ]_vars

\* tag_b was registered with Service8 in group_1 and then with the class
\* without a name, in group_1 too; the resolution of group_1 has made a
\* Service8 and then an object of the class that has the tag now.
C24_Witness ==
  /\ lastCall.op = "inject" /\ lastCall.group = Str("group_1")
  /\ result.kind = "return"
  /\ Len(groupRegistry["group_1"]) = 2
  /\ groupRegistry["group_1"][1].target = "Service8"
  /\ groupRegistry["group_1"][1].tags = <<"tag_b">>
  /\ Overwritten(groupRegistry["group_1"][1])
  /\ classRegistry["tag_b"] = groupRegistry["group_1"][2]
  /\ classRegistry["tag_b"].target = Anonymous
  /\ heap[heap[result.id].fields[1]].cls = "Service8"
  /\ heap[heap[result.id].fields[2]].cls = Anonymous

(***************************************************************************)
(* Caches and registries.                                                  *)
(***************************************************************************)
\* Tag cache inst and group cache grp against the registries.  A cached
\* array is stored when it is complete and is not written again, so the heap
\* of the state has what it held when grp was the group cache.
CachesWithinRegistries(inst, grp) ==
  /\ \A t \in DOMAIN inst : Has(classRegistry, t)
  /\ \A g \in DOMAIN grp :
       /\ Has(groupRegistry, g)
       /\ Len(groupRegistry[g]) >= 1
       /\ Len(heap[grp[g]].fields) <= Len(groupRegistry[g])

\* C25: in every state, and in every state that a call of inject of the
\* last operation started from (the nested calls made by constructors
\* too), every key of the tag cache is a key of the class registry, every
\* key of the group cache is a key of the group registry whose bucket is
\* not empty, and no cached array is longer than that bucket.
C25_CachesWithinRegistries ==
  /\ CachesWithinRegistries(instances, groups)
  /\ \A i \in DOMAIN log :
       CachesWithinRegistries(log[i].instancesBefore, log[i].groupsBefore)

\* Both caches are filled, the bucket of group_1 has grown since its array
\* was cached, and a singleton request for a group that is not registered
\* has just failed.
C25_Witness ==
  /\ lastCall.op = "inject" /\ lastCall.group = Str("NON_EXISTING_GROUP")
  /\ lastCall.singleton # "false"
  /\ result.kind = "throw"
  /\ DOMAIN instances # {}
  /\ Has(groups, "group_1")
  /\ Len(heap[groups["group_1"]].fields) >= 1
  /\ Len(heap[groups["group_1"]].fields) < Len(groupRegistry["group_1"])

(***************************************************************************)
(* The decorator on something that is no class: contexts of the other      *)
(* kinds, with tags that normalize and with a class without a name and no  *)
(* tags, next to registrations of classes.                                 *)
(***************************************************************************)
KindRegistrations ==
  { Reg("Service1", Str("service_1"), Str("group_1"), "class"),
    Reg("Service2", Arr(<<"service_1", "service_2">>), Str("group_1"), "method"),
    Reg(Anonymous, Undef, Str("group_1"), "method"),
    Reg(Anonymous, Str(""), Undef, "field"),
    Reg("Service3", Undef, Str("group_2"), "accessor"),
    Reg(Anonymous, Undef, Str("group_1"), "class"),
    Reg("Service3", Undef, Str("group_2"), "class") }

KindRequests ==
  { Req(Str(t), Undef, s) :
      t \in {"service_1", "service_2", "Service3"}, s \in {"omitted", "false"} }
  \cup { Req(Undef, Str(g), "omitted") : g \in {"group_1", "group_2"} }

NextKind ==
  \/ \E r \in KindRegistrations : Injectable(r)
  \/ \E q \in KindRequests : Inject(q, MaxHeap)
  \/ Continue

SpecKind == Init /\ [][NextKind]_vars

\* C26: the decorator applied with a context whose kind is not 'class'
\* throws 'Invalid kind <kind>', whatever the tags and the class are (also
\* when normalizing the tags would throw), and changes neither registry nor
\* anything else.
C26_InvalidKindBeforeNormalization ==
  [][ (lastCall'.op = "injectable" /\ lastCall'.kind # "class") =>
        /\ result' = Throw("Invalid kind ", lastCall'.kind, 0)
        /\ Unchanged ]_vars

\* Both registries have entries, and the decorator has just been applied
\* to a class without a name with no tags and a method context: the error
\* is the one about the kind, not the one about the tags.
C26_Witness ==
  /\ lastCall.op = "injectable" /\ lastCall.kind = "method"
  /\ lastCall.target = Anonymous /\ lastCall.tags = Undef
  /\ ~normalizeTags(lastCall.tags, lastCall.target).ok
  /\ result = Throw("Invalid kind ", "method", 0)
  /\ Has(classRegistry, "service_1")
  /\ Has(groupRegistry, "group_1")

====
